---- MODULE Spec2Model ----
(***************************************************************************)
(* A model of packages/gatsby-source-filesystem/src/create-remote-file-    *)
(* node.js: the deduplicating entry point createRemoteFileNode, the        *)
(* better-queue instance it pushes tasks to, processRemoteNode with each   *)
(* of its awaits as a step, requestRemoteNode, and the persistent state    *)
(* (Gatsby cache, plugin cache directory) that outlives a process.         *)
(***************************************************************************)
EXTENDS Integers, Sequences, FiniteSets, TLC

(* ----------------------------- bounds ---------------------------------- *)

\* Number of times the build process is stopped and started again.
MaxRestarts == 2

(* ------------------------ values of the inputs ------------------------- *)

WebUrls == {"http://h/a.jpg", "http://h/b"}

\* "" is falsy, "not a url" is no web URI, "constructor" is no web URI and
\* is the name of a property every object literal inherits.
OtherUrls == {"", "not a url", "constructor"}

Urls == WebUrls \cup OtherUrls

\* JavaScript values as far as the code looks at them.
Undefined == [t |-> "undefined", id |-> ""]
Null == [t |-> "null", id |-> ""]
Fn(name) == [t |-> "function", id |-> name]
Obj(name) == [t |-> "object", id |-> name]
Str(s) == [t |-> "string", id |-> s]

\* typeof: null is an object.
Typeof(v) == IF v.t = "null" THEN "object" ELSE v.t

\* !v
Falsy(v) == v.t \in {"undefined", "null"} \/ v = Str("")

NoAuth == [htaccess_user |-> Undefined, htaccess_pass |-> Undefined]

GoodOptions ==
  { [createNodeId |-> Fn("createNodeId"), createNode |-> Fn("sinkA"),
     store |-> Obj("store"), cache |-> Obj("cache"),
     ext |-> Null, auth |-> NoAuth],
    [createNodeId |-> Fn("createNodeId"), createNode |-> Fn("sinkB"),
     store |-> Obj("store"), cache |-> Obj("cache"),
     ext |-> Str(".png"),
     auth |-> [htaccess_user |-> Str("user"), htaccess_pass |-> Str("pass")]] }

DefaultOptions ==
  [createNodeId |-> Fn("createNodeId"), createNode |-> Fn("sinkA"),
   store |-> Obj("store"), cache |-> Obj("cache"),
   ext |-> Null, auth |-> NoAuth]

\* One collaborator wrong at a time.
BadOptions ==
  { [DefaultOptions EXCEPT !.createNodeId = Undefined],
    [DefaultOptions EXCEPT !.createNode = Str("createNode")],
    [DefaultOptions EXCEPT !.store = Undefined],
    [DefaultOptions EXCEPT !.store = Null],
    [DefaultOptions EXCEPT !.cache = Undefined],
    [DefaultOptions EXCEPT !.cache = Null] }

Options == GoodOptions \cup BadOptions

(* --------------------------- pure helpers ------------------------------ *)

\* valid-url's isWebUri: the URL itself for an http(s) URL, else undefined.
isWebUri(url) == IF url \in WebUrls THEN Str(url) ELSE Undefined

cacheId(url) == <<"create-remote-file-node-", url>>

\* md5 is taken to be free of collisions on the URLs of the model.
createHash(str) == <<"md5", str>>

CACHE_DIR == ".cache"

FS_PLUGIN_DIR == "gatsby-source-filesystem"

\* path.join(directory, `${filename}${ext}`): a directory (a sequence of
\* segments), the file name and the extension appended to it.
createFilePath(directory, filename, ext) ==
  [dir |-> directory, stem |-> filename, ext |-> ext]

NoPath == createFilePath(<< >>, << >>, "")

\* ./utils: the name and the extension of the last segment of the URL path.
getRemoteFileName(url) ==
  CASE url = "http://h/a.jpg" -> "a"
    [] url = "http://h/b" -> "b"
    [] OTHER -> ""

getRemoteFileExtension(url) ==
  CASE url = "http://h/a.jpg" -> ".jpg"
    [] OTHER -> ""

\* store.getState().program.directory
programDirectory == "/site"

pluginCacheDir == <<programDirectory, CACHE_DIR, FS_PLUGIN_DIR>>

\* What a server can answer with.
Bodies == {"gif-bytes", "text-bytes"}

\* The body of a 304 response, and so of the file it is piped to, is empty.
EmptyBody == ""

\* A file that is being written and whose stream has not finished.
Partial == "partial"

ETagOf(body) == IF body = "gif-bytes" THEN "etag-gif" ELSE "etag-text"

ContentTypeOf(body) == IF body = "gif-bytes" THEN "image/gif" ELSE "text/plain"

\* file-type on the first bytes that read-chunk returns: the type's
\* extension, or null for content it does not recognise (an empty file too).
fileType(buffer) == IF buffer = "gif-bytes" THEN Str("gif") ELSE Null

\* `${auth.htaccess_user}:${auth.htaccess_pass}`
TemplateString(v) == IF v.t = "string" THEN v.id ELSE v.t

AuthHeader(auth) ==
  IF ~Falsy(auth.htaccess_pass) \/ ~Falsy(auth.htaccess_user)
  THEN <<TemplateString(auth.htaccess_user), ":", TemplateString(auth.htaccess_pass)>>
  ELSE << >>

\* The request headers processRemoteNode builds from the cached headers.
RequestHeaders(cachedHeaders, auth) ==
  [auth |-> AuthHeader(auth),
   ifNoneMatch |-> IF cachedHeaders.present /\ cachedHeaders.etag # ""
                   THEN cachedHeaders.etag ELSE ""]

NoHeaders == [present |-> FALSE, etag |-> "", contentType |-> ""]

Headers(etag, contentType) ==
  [present |-> TRUE, etag |-> etag, contentType |-> contentType]

NoResponse == [statusCode |-> 0, body |-> EmptyBody, headers |-> NoHeaders]

\* The responses that end without a stream error: 200 with a body, with or
\* without an entity tag, and 304 in answer to a conditional request.
Responses(headers) ==
  UNION { { [statusCode |-> 200, body |-> b,
             headers |-> Headers(e, ContentTypeOf(b))] : e \in {"", ETagOf(b)} } :
          b \in Bodies }
  \cup
  { [statusCode |-> 304, body |-> EmptyBody, headers |-> Headers(e, "")] :
      e \in IF headers.ifNoneMatch = "" THEN {} ELSE {"", headers.ifNoneMatch} }

(* ------------------------------- state --------------------------------- *)

VARIABLES
  processingCache, \* own properties of the processingCache object: url -> promise
  promises,        \* the promises pushTask made: id -> Pending or the value
  queue,           \* better-queue: the ids (urls) of the waiting tasks, in order
  task,            \* better-queue: the task stored under each id
  tickets,         \* better-queue: the promises to settle when the task ends
  pc,              \* where the task of each url stands in processRemoteNode
  loc,             \* the local variables of that processRemoteNode call
  registrations,   \* the calls made to the createNode sinks
  gatsbyCache,     \* the persistent Gatsby cache: key -> response headers
  fs,              \* the files on disk: path -> content
  dirs,            \* the directories on disk
  lastCall,        \* the call of createRemoteFileNode the last step made, if any
  pushes,          \* queue.push calls per url, in this process
  fetches,         \* requestRemoteNode calls per url, in this process
  otherRunning,    \* running tasks of urls other than WebUrls
  restarts         \* processes ended so far

volatile == <<processingCache, promises, queue, task, tickets, pc, loc,
              registrations, pushes, fetches>>

persistent == <<gatsbyCache, fs, dirs>>

vars == <<processingCache, promises, queue, task, tickets, pc, loc,
          registrations, gatsbyCache, fs, dirs, lastCall, pushes, fetches,
          otherRunning, restarts>>

\* The most tasks the queue runs at a time.
concurrent == 200

Running == {"ensureDir", "cacheGet", "request", "cacheSet", "materialize",
            "createFileNode"}

running == {u \in WebUrls : pc[u] \in Running}

\* The number of tasks the queue is running.
runningCount == Cardinality(running) + otherRunning

\* A queue that admits one task too many.
HasSlotOffByOne == runningCount <= concurrent

\* The queue has a free slot.
HasSlot == runningCount < concurrent

\* The id of a task whose url is none of WebUrls.
Other == "http://other"

Result(kind, path, description) ==
  [kind |-> kind, absolutePath |-> path, description |-> description]

Pending == Result("pending", NoPath, << >>)

NullResult == Result("null", NoPath, << >>)

\* What Promise.resolve() and resolve() settle with.
UndefinedResult == Result("undefined", NoPath, << >>)

ErrorResult(name) == Result("error", NoPath, <<name>>)

NoTask == [DefaultOptions EXCEPT !.createNodeId = Undefined,
                                 !.createNode = Undefined,
                                 !.store = Undefined, !.cache = Undefined]

NoLocals == [ext |-> "", headers |-> RequestHeaders(NoHeaders, NoAuth),
             tmpFilename |-> NoPath, filename |-> NoPath,
             response |-> NoResponse]

Ret(kind, of) == [kind |-> kind, of |-> of]

NoCall == [url |-> "", options |-> NoTask, ret |-> Ret("none", << >>)]

\* The names every object literal inherits from Object.prototype.
ObjectPrototypeKeys == {"constructor", "toString", "valueOf", "hasOwnProperty"}

\* processingCache[url] on the object literal of line 259.
ProcessingCacheGet(url) ==
  IF url \in DOMAIN processingCache
  THEN Ret("promise", processingCache[url])
  ELSE IF url \in ObjectPrototypeKeys
       THEN Ret("inherited", <<url>>)
       ELSE Ret("undefined", << >>)

Init ==
  /\ processingCache = << >>
  /\ promises = << >>
  /\ queue = << >>
  /\ task = [u \in WebUrls |-> NoTask]
  /\ tickets = [u \in WebUrls |-> {}]
  /\ pc = [u \in WebUrls |-> "idle"]
  /\ loc = [u \in WebUrls |-> NoLocals]
  /\ registrations = {}
  /\ gatsbyCache = << >>
  /\ fs = << >>
  /\ dirs = {}
  /\ lastCall = NoCall
  /\ pushes = [u \in WebUrls |-> 0]
  /\ fetches = [u \in WebUrls |-> 0]
  /\ otherRunning = 0
  /\ restarts = 0

(* ------------------------- files and the cache ------------------------- *)

Exists(path) == path \in DOMAIN fs

WriteFile(files, path, content) ==
  [p \in DOMAIN files \cup {path} |-> IF p = path THEN content ELSE files[p]]

\* A removal that empties the disk.
RemoveFileAll(files, path) == << >>

RemoveFile(files, path) == [p \in DOMAIN files \ {path} |-> files[p]]

\* A move that leaves the source where it is.
MoveFileCopy(files, src, dest) == WriteFile(files, dest, files[src])

\* fs.move(src, dest, {overwrite: true})
MoveFile(files, src, dest) == RemoveFile(WriteFile(files, dest, files[src]), src)

\* A cache that never has an entry.
CacheGetMiss(key) == NoHeaders

CacheGet(key) == IF key \in DOMAIN gatsbyCache THEN gatsbyCache[key] ELSE NoHeaders

\* A cache whose set keeps the entries it has.
CacheSetKeepsOld(cache, key, value) ==
  [k \in DOMAIN cache \cup {key} |-> IF k \in DOMAIN cache THEN cache[k] ELSE value]

CacheSet(cache, key, value) ==
  [k \in DOMAIN cache \cup {key} |-> IF k = key THEN value ELSE cache[k]]

(* ---------------------------- entry point ------------------------------ *)

\* The validation of lines 308-321.
ValidOptions(o) ==
  /\ Typeof(o.createNodeId) = "function"
  /\ Typeof(o.createNode) = "function"
  /\ Typeof(o.store) = "object"
  /\ Typeof(o.cache) = "object"

\* A front door that looks nothing up.
InProcessingCacheNever(url) == FALSE

\* A front door whose entry counts only while its promise is pending.
InProcessingCacheWhilePending(url) ==
  /\ url \in DOMAIN processingCache
  /\ promises[processingCache[url]] = Pending

\* if (processingCache[url])
InProcessingCache(url) == ProcessingCacheGet(url).kind # "undefined"

\* queue.push(task) with merge: (old, _, cb) => cb(old): a task whose id is
\* waiting keeps the stored task; the new ticket joins the task's tickets.
QueuePush(url, o, promise) ==
  /\ queue' = IF \E i \in 1..Len(queue) : queue[i] = url
              THEN queue ELSE Append(queue, url)
  /\ task' = IF \E i \in 1..Len(queue) : queue[i] = url
             THEN task ELSE [task EXCEPT ![url] = o]
  /\ tickets' = [tickets EXCEPT ![url] = @ \cup {promise}]
  /\ pc' = [pc EXCEPT ![url] = "queued"]

\* module.exports: one call of createRemoteFileNode(options).
createRemoteFileNode(url, o) ==
  IF ~ValidOptions(o)
  THEN /\ lastCall' = [url |-> url, options |-> o, ret |-> Ret("throws", << >>)]
       /\ UNCHANGED <<volatile, persistent, otherRunning, restarts>>
  ELSE IF InProcessingCache(url)
  THEN /\ lastCall' = [url |-> url, options |-> o, ret |-> ProcessingCacheGet(url)]
       /\ UNCHANGED <<volatile, persistent, otherRunning, restarts>>
  ELSE IF url = "" \/ isWebUri(url) = Undefined
  THEN /\ lastCall' = [url |-> url, options |-> o, ret |-> Ret("resolved", << >>)]
       /\ UNCHANGED <<volatile, persistent, otherRunning, restarts>>
  ELSE LET promise == <<url, pushes[url] + 1>> IN
       /\ QueuePush(url, o, promise)
       /\ promises' = [q \in DOMAIN promises \cup {promise} |->
                         IF q = promise THEN Pending ELSE promises[q]]
       /\ processingCache' = [k \in DOMAIN processingCache \cup {url} |->
                                IF k = url THEN promise ELSE processingCache[k]]
       /\ pushes' = [pushes EXCEPT ![url] = @ + 1]
       /\ lastCall' = [url |-> url, options |-> o, ret |-> Ret("promise", promise)]
       /\ UNCHANGED <<loc, registrations, fetches, persistent, otherRunning,
                       restarts>>

(* ------------------------------ the queue ------------------------------ *)

\* pushToQueue's cb(null, result), the ticket's finish event and pushTask's
\* resolve(result): every promise attached to the task settles with result.
Finish(u, result) ==
  /\ pc' = [pc EXCEPT ![u] = "done"]
  /\ promises' = [q \in DOMAIN promises |->
                    IF q \in tickets[u] THEN result ELSE promises[q]]
  /\ tickets' = [tickets EXCEPT ![u] = {}]
  /\ task' = [task EXCEPT ![u] = NoTask]
  /\ loc' = [loc EXCEPT ![u] = NoLocals]

\* What pushToQueue hands to cb when processRemoteNode throws ahead of its
\* try block: cb(null, e).
Thrown(name) == ErrorResult(name)

\* The queue takes the first waiting task when fewer than `concurrent` run,
\* and processRemoteNode runs up to its first await.
StartTask(u) ==
  /\ queue # << >> /\ Head(queue) = u
  /\ HasSlot
  /\ queue' = Tail(queue)
  /\ IF task[u].store = Null
     THEN /\ Finish(u, Thrown("TypeError"))
          /\ UNCHANGED <<processingCache, registrations, persistent, pushes,
                         fetches, otherRunning, restarts>>
     ELSE /\ pc' = [pc EXCEPT ![u] = "ensureDir"]
          /\ UNCHANGED <<processingCache, promises, task, tickets, loc,
                         registrations, persistent, pushes, fetches,
                         otherRunning, restarts>>
  /\ lastCall' = NoCall

(* -------------------------- processRemoteNode -------------------------- *)

frame == <<processingCache, queue, pushes, otherRunning, restarts>>

\* await fs.ensureDir(pluginCacheDir), then the call cache.get(cacheId(url)).
EnsureDir(u) ==
  /\ pc[u] = "ensureDir"
  /\ \E ok \in BOOLEAN :
       IF ~ok
       THEN /\ Finish(u, Thrown("EnsureDirError"))
            /\ UNCHANGED <<registrations, persistent, fetches>>
       ELSE /\ dirs' = dirs \cup {pluginCacheDir}
            /\ IF task[u].cache = Null
               THEN Finish(u, Thrown("TypeError"))
               ELSE /\ pc' = [pc EXCEPT ![u] = "cacheGet"]
                    /\ UNCHANGED <<promises, task, tickets, loc>>
            /\ UNCHANGED <<registrations, gatsbyCache, fs, fetches>>
  /\ lastCall' = NoCall
  /\ UNCHANGED frame

\* if (!ext) ext = getRemoteFileExtension(url)
ResolveExt(ext, url) == IF Falsy(ext) THEN getRemoteFileExtension(url) ELSE ext.id

\* Lines 227-231: the permanent file name.
filenameOf(url, ext) ==
  createFilePath(Append(pluginCacheDir, createHash(url)),
                 <<getRemoteFileName(url)>>, ext)

\* A download that is piped to the permanent file name.
tmpFilenameInPlace(url, ext) == filenameOf(url, ext)

\* Line 210: the temp file name.
tmpFilenameOf(url, ext) ==
  createFilePath(pluginCacheDir, <<"tmp-", createHash(url)>>, ext)

\* requestRemoteNode up to its return: the request is sent and the write
\* stream opens (and truncates) the temp file.
requestRemoteNode(u, headers, tmpFilename) ==
  /\ fs' = WriteFile(fs, tmpFilename, Partial)
  /\ fetches' = [fetches EXCEPT ![u] = @ + 1]

\* await cache.get(...) returns; lines 191-214 up to the await of the request.
CacheGetReturns(u) ==
  /\ pc[u] = "cacheGet"
  /\ \E ok \in BOOLEAN :
       IF ~ok
       THEN /\ Finish(u, Thrown("CacheGetError"))
            /\ UNCHANGED <<registrations, persistent, fetches>>
       ELSE LET cachedHeaders == CacheGet(cacheId(u))
                headers == RequestHeaders(cachedHeaders, task[u].auth)
                ext == ResolveExt(task[u].ext, u)
                tmpFilename == tmpFilenameOf(u, ext)
            IN /\ requestRemoteNode(u, headers, tmpFilename)
               /\ loc' = [loc EXCEPT ![u] = [NoLocals EXCEPT
                            !.ext = ext, !.headers = headers,
                            !.tmpFilename = tmpFilename]]
               /\ pc' = [pc EXCEPT ![u] = "request"]
               /\ UNCHANGED <<promises, task, tickets, registrations,
                              gatsbyCache, dirs>>
  /\ lastCall' = NoCall
  /\ UNCHANGED frame

\* response, then finish of the write stream: resolve(response); the
\* continuation calls cache.set(cacheId(url), response.headers).
ResponseFinish(u) ==
  /\ pc[u] = "request"
  /\ \E response \in Responses(loc[u].headers) :
       /\ fs' = WriteFile(fs, loc[u].tmpFilename, response.body)
       /\ loc' = [loc EXCEPT ![u].response = response]
  /\ pc' = [pc EXCEPT ![u] = "cacheSet"]
  /\ UNCHANGED <<promises, task, tickets, registrations, gatsbyCache, dirs,
                 fetches>>
  /\ lastCall' = NoCall
  /\ UNCHANGED frame

\* responseStream error: fs.removeSync(tmpFilename); reject(error); the catch
\* of processRemoteNode ignores it and null is returned.
ResponseError(u) ==
  /\ pc[u] = "request"
  /\ fs' = RemoveFile(fs, loc[u].tmpFilename)
  /\ Finish(u, NullResult)
  /\ UNCHANGED <<registrations, gatsbyCache, dirs, fetches>>
  /\ lastCall' = NoCall
  /\ UNCHANGED frame

\* A write stream whose error nobody listens to: the promise of
\* requestRemoteNode stays pending.
WriteStreamErrorUnheard(u) ==
  /\ pc[u] = "request"
  /\ pc' = [pc EXCEPT ![u] = "stalled"]
  /\ UNCHANGED <<promises, task, tickets, loc, registrations, persistent,
                 fetches>>
  /\ lastCall' = NoCall
  /\ UNCHANGED frame

\* fsWriteStream error: reject(error) and nothing else.
WriteStreamError(u) ==
  /\ pc[u] = "request"
  /\ Finish(u, NullResult)
  /\ UNCHANGED <<registrations, persistent, fetches>>
  /\ lastCall' = NoCall
  /\ UNCHANGED frame

\* `.${filetype.ext}`
DotExt(e) == CASE e = "png" -> ".png" [] e = "gif" -> ".gif" [] OTHER -> "."

\* A sniff that is made, and preferred, whatever extension there is.
SniffedExtAlways(ext, buffer) ==
  IF fileType(buffer) # Null THEN DotExt(fileType(buffer).id) ELSE ext

\* Lines 219-225: the extension after the sniff of the temp file.
SniffedExt(ext, buffer) ==
  IF ext = "" /\ fileType(buffer) # Null
  THEN DotExt(fileType(buffer).id)
  ELSE ext

\* await cache.set(...) returns; lines 219-238 up to the await of the move
\* or of the removal. readChunk.sync can throw when it is called.
CacheSetReturns(u) ==
  /\ pc[u] = "cacheSet"
  /\ \E ok \in BOOLEAN, readOk \in BOOLEAN :
       IF ~ok
       THEN /\ Finish(u, NullResult)
            /\ UNCHANGED gatsbyCache
       ELSE /\ gatsbyCache' = CacheSet(gatsbyCache, cacheId(u),
                                       loc[u].response.headers)
            /\ IF loc[u].ext = "" /\ ~readOk
               THEN Finish(u, NullResult)
               ELSE /\ LET ext == SniffedExt(loc[u].ext, fs[loc[u].tmpFilename])
                       IN loc' = [loc EXCEPT ![u].ext = ext,
                                             ![u].filename = filenameOf(u, ext)]
                    /\ pc' = [pc EXCEPT ![u] = "materialize"]
                    /\ UNCHANGED <<promises, task, tickets>>
  /\ UNCHANGED <<registrations, fs, dirs, fetches>>
  /\ lastCall' = NoCall
  /\ UNCHANGED frame

\* A status test that takes every response for a new file.
IsFreshAlways(response) == TRUE

\* if (response.statusCode === 200)
IsFresh(response) == response.statusCode = 200

\* await fs.move(tmpFilename, filename, {overwrite: true}) for a 200,
\* await fs.remove(tmpFilename) otherwise.
Materialize(u) ==
  /\ pc[u] = "materialize"
  /\ \E ok \in BOOLEAN :
       IF ~ok
       THEN /\ Finish(u, NullResult)
            /\ UNCHANGED <<fs, dirs>>
       ELSE /\ IF IsFresh(loc[u].response)
               THEN /\ fs' = MoveFile(fs, loc[u].tmpFilename, loc[u].filename)
                    /\ dirs' = dirs \cup {loc[u].filename.dir}
               ELSE /\ fs' = RemoveFile(fs, loc[u].tmpFilename)
                    /\ UNCHANGED dirs
            /\ pc' = [pc EXCEPT ![u] = "createFileNode"]
            /\ UNCHANGED <<promises, task, tickets, loc>>
  /\ UNCHANGED <<registrations, gatsbyCache, fetches>>
  /\ lastCall' = NoCall
  /\ UNCHANGED frame

\* ./create-file-node: the File node of an existing file; it fails for a
\* path that does not exist.
createFileNode(filename, url) ==
  Result("node", filename, <<"File \"", url, "\"">>)

\* await createFileNode(...) returns; the description is set, the sink is
\* called with the plugin's name and the node is returned.
CreateFileNode(u) ==
  /\ pc[u] = "createFileNode"
  /\ \E ok \in BOOLEAN, sinkOk \in BOOLEAN :
       IF ~ok \/ ~Exists(loc[u].filename)
       THEN /\ Finish(u, NullResult)
            /\ UNCHANGED registrations
       ELSE LET fileNode == createFileNode(loc[u].filename, u) IN
            IF ~sinkOk
            THEN /\ Finish(u, NullResult)
                 /\ UNCHANGED registrations
            ELSE /\ registrations' = registrations \cup
                       {[sink |-> task[u].createNode.id, node |-> fileNode,
                         name |-> "gatsby-source-filesystem"]}
                 /\ Finish(u, fileNode)
  /\ UNCHANGED <<persistent, fetches>>
  /\ lastCall' = NoCall
  /\ UNCHANGED frame

(* ------------------------------ processes ------------------------------ *)

\* The process ends, at any point, and a new one starts: the module state is
\* new, the Gatsby cache and the disk are as they were left.
Restart ==
  /\ restarts < MaxRestarts
  /\ restarts' = restarts + 1
  /\ processingCache' = << >>
  /\ promises' = << >>
  /\ queue' = << >>
  /\ task' = [u \in WebUrls |-> NoTask]
  /\ tickets' = [u \in WebUrls |-> {}]
  /\ pc' = [u \in WebUrls |-> "idle"]
  /\ loc' = [u \in WebUrls |-> NoLocals]
  /\ registrations' = {}
  /\ pushes' = [u \in WebUrls |-> 0]
  /\ fetches' = [u \in WebUrls |-> 0]
  /\ lastCall' = NoCall
  /\ otherRunning' = 0
  /\ UNCHANGED persistent

(* --------------------- tasks of the other urls ------------------------- *)

\* Anonymous tasks waiting in the queue, at most.
MaxWaiting == 1

\* Slots of the queue the anonymous tasks leave free, at most.
MaxFree == 2

others == <<processingCache, promises, task, tickets, pc, loc, registrations,
            persistent, pushes, fetches, restarts>>

\* createRemoteFileNode for a new url that is none of WebUrls, with options
\* that pass the validation: its task joins the queue.
OtherPush ==
  /\ Cardinality({i \in 1..Len(queue) : queue[i] = Other}) < MaxWaiting
  /\ queue' = Append(queue, Other)
  /\ lastCall' = NoCall
  /\ UNCHANGED <<others, otherRunning>>

\* The queue starts the task of another url.
OtherStart ==
  /\ queue # << >> /\ Head(queue) = Other
  /\ HasSlot
  /\ queue' = Tail(queue)
  /\ otherRunning' = otherRunning + 1
  /\ lastCall' = NoCall
  /\ UNCHANGED others

\* The task of another url ends.
OtherFinish ==
  /\ otherRunning > 0
  /\ concurrent - otherRunning < MaxFree
  /\ otherRunning' = otherRunning - 1
  /\ lastCall' = NoCall
  /\ UNCHANGED <<others, queue>>

\* The steps of the tasks, whatever the calls are.
TaskStep ==
  \/ \E u \in WebUrls : StartTask(u)
  \/ \E u \in WebUrls : EnsureDir(u)
  \/ \E u \in WebUrls : CacheGetReturns(u)
  \/ \E u \in WebUrls : ResponseFinish(u)
  \/ \E u \in WebUrls : ResponseError(u)
  \/ \E u \in WebUrls : WriteStreamError(u)
  \/ \E u \in WebUrls : CacheSetReturns(u)
  \/ \E u \in WebUrls : Materialize(u)
  \/ \E u \in WebUrls : CreateFileNode(u)

\* The options that pass the validation.
AdmittedOptions == {o \in Options : ValidOptions(o)}

\* One process, calls that pass the validation, for both web urls.
Next ==
  \/ \E url \in WebUrls, o \in AdmittedOptions : createRemoteFileNode(url, o)
  \/ TaskStep

Spec == Init /\ [][Next]_vars

\* One process, every kind of call: any options, one web url and the urls
\* that are none.
NextFrontDoor ==
  \/ \E url \in {"http://h/a.jpg"} \cup OtherUrls, o \in Options :
       createRemoteFileNode(url, o)
  \/ TaskStep

SpecFrontDoor == Init /\ [][NextFrontDoor]_vars

\* Successive processes on one disk and one Gatsby cache, for one url.
NextRerun ==
  \/ \E o \in GoodOptions : createRemoteFileNode("http://h/b", o)
  \/ TaskStep
  \/ Restart

SpecRerun == Init /\ [][NextRerun]_vars

\* One process in which concurrent - 1 tasks of other urls are running.
InitCeiling ==
  /\ processingCache = << >>
  /\ promises = << >>
  /\ queue = << >>
  /\ task = [u \in WebUrls |-> NoTask]
  /\ tickets = [u \in WebUrls |-> {}]
  /\ pc = [u \in WebUrls |-> "idle"]
  /\ loc = [u \in WebUrls |-> NoLocals]
  /\ registrations = {}
  /\ gatsbyCache = << >>
  /\ fs = << >>
  /\ dirs = {pluginCacheDir}
  /\ lastCall = NoCall
  /\ pushes = [u \in WebUrls |-> 0]
  /\ fetches = [u \in WebUrls |-> 0]
  /\ otherRunning = concurrent - 1
  /\ restarts = 0

NextCeiling ==
  \/ \E url \in WebUrls : createRemoteFileNode(url, DefaultOptions)
  \/ TaskStep
  \/ OtherPush
  \/ OtherStart
  \/ OtherFinish

SpecCeiling == InitCeiling /\ [][NextCeiling]_vars

\* What a caller can pass as auth: nothing (the default {}), a user name
\* alone, a password alone, or both.
AuthValues ==
  { NoAuth,
    [htaccess_user |-> Str("user"), htaccess_pass |-> Undefined],
    [htaccess_user |-> Undefined, htaccess_pass |-> Str("pass")],
    [htaccess_user |-> Str("user"), htaccess_pass |-> Str("pass")] }

AuthOptions == {[DefaultOptions EXCEPT !.auth = a] : a \in AuthValues}

\* One process, one url, every kind of credentials.
NextAuth ==
  \/ \E o \in AuthOptions : createRemoteFileNode("http://h/a.jpg", o)
  \/ TaskStep

SpecAuth == Init /\ [][NextAuth]_vars

\* The steps of the task of one url.
Steps(u) ==
  \/ StartTask(u)
  \/ EnsureDir(u)
  \/ CacheGetReturns(u)
  \/ ResponseFinish(u)
  \/ ResponseError(u)
  \/ WriteStreamError(u)
  \/ CacheSetReturns(u)
  \/ Materialize(u)
  \/ CreateFileNode(u)

\* The queue starts a waiting task when it has a free slot, every request
\* ends with a response or an error and every collaborator returns or
\* throws: a task that can take a step takes one.
Fairness == \A u \in WebUrls : WF_vars(Steps(u))

\* Successive processes, each scheduled fairly until it is stopped.
SpecLive == Init /\ [][NextRerun]_vars /\ Fairness

(* ------------------------------- claims -------------------------------- *)

\* The promise the first pushTask of a process makes for url.
FirstPromise(u) == <<u, 1>>

Settled(u) ==
  /\ FirstPromise(u) \in DOMAIN promises
  /\ promises[FirstPromise(u)] # Pending

\* The last step was a call for the web url u that passed the validation.
Called(u) == lastCall.url = u /\ lastCall.ret.kind \notin {"none", "throws"}

\* C1, as stated: whatever number of calls is made for a web url, once
\* their promise has settled exactly one task has been pushed and exactly
\* one request has been made for it.
C1_ExactlyOneFetch ==
  \A u \in WebUrls : Settled(u) => pushes[u] = 1 /\ fetches[u] = 1

\* C1, amended: every call for a web url returns the promise of the first,
\* one task is pushed for it, and at most one request is made: exactly one
\* from the moment the task reaches the download, none when the task fails
\* ahead of it (the store's directory, ensureDir, cache.get).
C1_Dedup ==
  \A u \in WebUrls :
    /\ pushes[u] <= 1
    /\ fetches[u] <= pushes[u]
    /\ Cardinality({q \in DOMAIN promises : q[1] = u}) = pushes[u]
    /\ u \in DOMAIN processingCache <=> pushes[u] = 1
    /\ u \in DOMAIN processingCache => processingCache[u] = FirstPromise(u)
    /\ Called(u) => lastCall.ret = Ret("promise", FirstPromise(u))
    /\ pc[u] \in {"request", "cacheSet", "materialize", "createFileNode"}
         => fetches[u] = 1
    /\ Settled(u) =>
         IF promises[FirstPromise(u)].kind = "error"
         THEN fetches[u] = 0 ELSE fetches[u] = 1

\* A later call, with other options than the task's, has just been handed
\* the promise of the first call while the request of that task is out.
C1_Witness ==
  \E u \in WebUrls :
    /\ Called(u)
    /\ pc[u] = "request" /\ fetches[u] = 1
    /\ lastCall.options # task[u]
    /\ lastCall.options.ext # task[u].ext
    /\ lastCall.options.createNode # task[u].createNode
    /\ lastCall.ret = Ret("promise", FirstPromise(u))
    /\ promises[FirstPromise(u)] = Pending

C3_FailureIsAbsent ==
  \A q \in DOMAIN promises :
    promises[q].kind \in {"pending", "node", "null", "undefined"}

\* C4: the queue never runs more than `concurrent` (200) tasks at a time.
C4_Ceiling == runningCount <= concurrent /\ concurrent = 200

\* The queue is full, with tasks of both kinds running, and the task of a
\* web url waits at the head of the queue.
C4_Witness ==
  \E u, v \in WebUrls :
    /\ runningCount = concurrent
    /\ pc[u] = "queued" /\ queue # << >> /\ Head(queue) = u
    /\ pc[v] \in Running
    /\ otherRunning = concurrent - 1

\* The extensions a file name of the model can end in.
Exts == {"", ".jpg", ".png", ".gif"}

\* C5: when the task of a url has ended, on any path, no temp file of the
\* url is left.
C5_NoTempFile ==
  \A u \in WebUrls :
    pc[u] = "done" => \A ext \in Exts : ~Exists(tmpFilenameOf(u, ext))

FinalPaths == {filenameOf(u, ext) : u \in WebUrls, ext \in Exts}

TempPaths == {tmpFilenameOf(u, ext) : u \in WebUrls, ext \in Exts}

\* The file at path is the same before and after the step.
SameFile(path) ==
  /\ path \in DOMAIN fs <=> path \in DOMAIN fs'
  /\ path \in DOMAIN fs => fs'[path] = fs[path]

\* The step is one of the task of u, in the process it was started in.
StepOf(u) == pc'[u] # pc[u] /\ restarts' = restarts

\* C6: in every state, also after the process was stopped at any point, a
\* permanent file name holds nothing or the whole body of a 200 response;
\* and a permanent file changes only by the move of the temp file of a task
\* whose write stream has finished with the body of a 200 response.
C6_Atomic ==
  /\ [](/\ DOMAIN fs \subseteq FinalPaths \cup TempPaths
        /\ \A path \in DOMAIN fs \cap FinalPaths : fs[path] \in Bodies)
  /\ [][\A path \in FinalPaths :
          SameFile(path) \/
            \E u \in WebUrls :
              /\ pc[u] = "materialize" /\ StepOf(u)
              /\ loc[u].response.statusCode = 200
              /\ path = loc[u].filename
              /\ fs[loc[u].tmpFilename] = loc[u].response.body
              /\ fs' = MoveFile(fs, loc[u].tmpFilename, path)]_vars

\* The process was stopped during the download of a url whose file an
\* earlier process had materialized: the temp file is left half written
\* beside the whole permanent file.
C6_Witness ==
  \E u \in WebUrls, e1, e2 \in Exts :
    /\ restarts = 2
    /\ pc[u] = "idle"
    /\ Exists(tmpFilenameOf(u, e1)) /\ fs[tmpFilenameOf(u, e1)] = Partial
    /\ Exists(filenameOf(u, e2)) /\ fs[filenameOf(u, e2)] \in Bodies

\* C7: no step of a task whose response is 304 moves a file or changes any
\* file other than the task's own temp file, which the task removes; the
\* file materialized before for the url stays as it is.
C7_NotModified ==
  [][\A u \in WebUrls :
       (StepOf(u) /\ (loc[u].response.statusCode = 304
                        \/ loc'[u].response.statusCode = 304)) =>
         /\ \A path \in FinalPaths : SameFile(path)
         /\ \A path \in (DOMAIN fs \cup DOMAIN fs') \ {loc[u].tmpFilename} :
              SameFile(path)
         /\ dirs' = dirs
         /\ pc'[u] = "createFileNode" => fs' = RemoveFile(fs, loc[u].tmpFilename)]_vars

\* The removal of a 304 task has returned: the temp file is gone and the
\* file an earlier process materialized for the url is in its place.
C7_Witness ==
  \E u \in WebUrls :
    /\ pc[u] = "createFileNode"
    /\ loc[u].response.statusCode = 304
    /\ ~Exists(loc[u].tmpFilename)
    /\ Exists(loc[u].filename) /\ fs[loc[u].filename] \in Bodies

\* C8, as stated: the Gatsby cache changes only when a task that received
\* 200 stores the headers of its response; a 304 leaves the entry as it is.
C8_OnlyFresh ==
  [][gatsbyCache' # gatsbyCache =>
       \E u \in WebUrls :
         /\ pc[u] = "cacheSet" /\ StepOf(u)
         /\ loc[u].response.statusCode = 200
         /\ gatsbyCache' = CacheSet(gatsbyCache, cacheId(u),
                                    loc[u].response.headers)]_vars

\* C8, amended: the Gatsby cache changes only when a task whose download
\* has ended with a response, 200 or 304, stores the headers of that
\* response under the key of its url; every such task that gets past
\* cache.set has replaced the entry with them (a 304 without an entity tag
\* leaves the entry without one). A task whose download failed, or that
\* failed ahead of it, writes nothing.
C8_EveryResponse ==
  [][/\ gatsbyCache' # gatsbyCache =>
          \E u \in WebUrls :
            /\ pc[u] = "cacheSet" /\ StepOf(u)
            /\ loc[u].response.statusCode \in {200, 304}
            /\ gatsbyCache' = CacheSet(gatsbyCache, cacheId(u),
                                       loc[u].response.headers)
     /\ \A u \in WebUrls :
          (pc[u] = "cacheSet" /\ pc'[u] = "materialize") =>
            /\ cacheId(u) \in DOMAIN gatsbyCache'
            /\ gatsbyCache'[cacheId(u)] = loc[u].response.headers
     /\ \A u \in WebUrls :
          (StepOf(u) /\ pc[u] \in {"queued", "ensureDir", "cacheGet", "request"})
            => gatsbyCache' = gatsbyCache]_vars

\* A conditional request was answered 304 without an entity tag, and the
\* entry of the url, which held the tag the request carried, now holds the
\* headers of the 304.
C8_Witness ==
  \E u \in WebUrls :
    /\ pc[u] = "materialize"
    /\ loc[u].response.statusCode = 304
    /\ loc[u].headers.ifNoneMatch # ""
    /\ loc[u].response.headers.etag = ""
    /\ gatsbyCache[cacheId(u)] = loc[u].response.headers

\* What a call that returns leaves alone.
NoSideEffect ==
  UNCHANGED <<processingCache, promises, queue, task, tickets, pc, loc,
              registrations, gatsbyCache, fs, dirs, pushes, fetches>>

\* createNodeId or createNode is no function, or store or cache is no object
\* that is there.
ConfigurationError(o) ==
  \/ o.createNodeId.t # "function"
  \/ o.createNode.t # "function"
  \/ o.store.t # "object"
  \/ o.cache.t # "object"

\* C9: a call with a valid configuration and a url that is empty or no web
\* url returns a promise resolved with nothing, and changes nothing.
C9_InvalidUrl ==
  [][(lastCall'.ret.kind # "none" /\ lastCall'.url \in OtherUrls
        /\ ~ConfigurationError(lastCall'.options)) =>
       /\ lastCall'.ret = Ret("resolved", << >>)
       /\ NoSideEffect]_vars

\* C10: a call with a configuration error throws, whatever the url is, and
\* changes nothing.
C10_FailFast ==
  [][(lastCall'.ret.kind # "none" /\ ConfigurationError(lastCall'.options)) =>
       /\ lastCall'.ret = Ret("throws", << >>)
       /\ NoSideEffect]_vars

\* C11: the file a task materializes for a 200 response carries the
\* extension the caller gave when it gave one; else the extension of the url
\* path when there is one; else the extension sniffed from the content, or
\* none for content that is not recognised. The content decides only when
\* the caller and the url path gave no extension.
C11_Precedence ==
  [][\A u \in WebUrls :
       (StepOf(u) /\ pc[u] = "materialize" /\ pc'[u] = "createFileNode"
          /\ loc[u].response.statusCode = 200) =>
         LET explicit == task[u].ext
             fromUrl == getRemoteFileExtension(u)
             body == loc[u].response.body
             expected == IF explicit.t = "string" /\ explicit.id # ""
                         THEN explicit.id
                         ELSE IF fromUrl # "" THEN fromUrl
                         ELSE IF body = "gif-bytes" THEN ".gif" ELSE ""
         IN /\ loc[u].filename.ext = expected
            /\ loc[u].filename \in DOMAIN fs'
            /\ fs'[loc[u].filename] = body
            /\ \A path \in FinalPaths \ {loc[u].filename} : SameFile(path)]_vars

\* The caller gave .png for a url that ends in .jpg and whose content is a
\* GIF: the file was materialized with .png, and with no other extension.
C11_Witness ==
  LET u == "http://h/a.jpg" IN
    /\ pc[u] = "createFileNode"
    /\ task[u].ext = Str(".png")
    /\ loc[u].response.statusCode = 200
    /\ loc[u].response.body = "gif-bytes"
    /\ filenameOf(u, ".png") \in DOMAIN fs
    /\ fs[filenameOf(u, ".png")] = "gif-bytes"
    /\ filenameOf(u, ".jpg") \notin DOMAIN fs
    /\ filenameOf(u, ".gif") \notin DOMAIN fs

\* C12: the request of a task whose caller supplied a user name, a password
\* or both carries the authorization value user:pass made of what was
\* supplied; the request of a task without credentials carries none.
C12_AuthHeader ==
  \A u \in WebUrls :
    pc[u] \in {"request", "cacheSet", "materialize", "createFileNode"} =>
      LET user == task[u].auth.htaccess_user
          pass == task[u].auth.htaccess_pass
          Supplied(v) == v.t = "string"
          Value(v) == IF Supplied(v) THEN v.id ELSE ""
      IN loc[u].headers.auth =
           IF Supplied(user) \/ Supplied(pass)
           THEN <<Value(user), ":", Value(pass)>>
           ELSE << >>

\* C13: when the download of a task ends with an error of the response
\* stream or of the write stream, the temp file is gone when the failure is
\* delivered, and the task ends without a response.
C13_StreamCleanup ==
  [][\A u \in WebUrls :
       (StepOf(u) /\ pc[u] = "request" /\ pc'[u] = "done") =>
         /\ loc[u].tmpFilename \notin DOMAIN fs'
         /\ promises'[FirstPromise(u)] = NullResult]_vars

\* The entity tag the Gatsby cache holds for the url, "" when it holds none.
CachedETag(u) ==
  IF cacheId(u) \in DOMAIN gatsbyCache /\ gatsbyCache[cacheId(u)].etag # ""
  THEN gatsbyCache[cacheId(u)].etag
  ELSE ""

\* C14: a request is made only by a task that has read the entry of its
\* url in the Gatsby cache, under the key of cacheId; it carries
\* If-None-Match with the entity tag of that entry when the entry has one
\* and carries none otherwise, so that while the request is out its tag is
\* the tag the last fetch of the url cached.
C14_Conditional ==
  /\ [](\A u \in WebUrls :
          pc[u] = "request" => loc[u].headers.ifNoneMatch = CachedETag(u))
  /\ [][\A u \in WebUrls :
          (fetches'[u] # fetches[u] /\ restarts' = restarts) =>
            /\ pc[u] = "cacheGet" /\ pc'[u] = "request"
            /\ fetches'[u] = fetches[u] + 1
            /\ loc'[u].headers.ifNoneMatch = CachedETag(u)
            /\ gatsbyCache' = gatsbyCache]_vars

\* In a later process the request of the url is out with the entity tag an
\* earlier fetch cached.
C14_Witness ==
  \E u \in WebUrls :
    /\ restarts > 0
    /\ pc[u] = "request"
    /\ cacheId(u) \in DOMAIN gatsbyCache
    /\ gatsbyCache[cacheId(u)].etag = "etag-gif"
    /\ loc[u].headers.ifNoneMatch = "etag-gif"

\* The promise createRemoteFileNode returned for the url is pending.
PendingHandle(u) ==
  FirstPromise(u) \in DOMAIN promises /\ promises[FirstPromise(u)] = Pending

\* The process of the promise has been stopped, or the promise has settled
\* with a value of one of the kinds.
SettledWith(u, kinds) ==
  \/ FirstPromise(u) \notin DOMAIN promises
  \/ promises[FirstPromise(u)].kind \in kinds

\* No call of createRemoteFileNode takes anything from a task that is
\* waiting or running.
NoAbort ==
  [][\A u \in WebUrls :
       (lastCall'.ret.kind # "none" /\ PendingHandle(u)) =>
         /\ pc'[u] = pc[u]
         /\ task'[u] = task[u]
         /\ tickets[u] \subseteq tickets'[u]
         /\ Len(queue) <= Len(queue')
         /\ PendingHandle(u)']_vars

Failed(u) ==
  /\ pc[u] = "done"
  /\ promises[FirstPromise(u)].kind \in {"null", "error"}

\* C16: no step of the task of a url, its failure at whatever step
\* included, changes anything of another url: the position and the locals
\* of its task, its promise and its processingCache entry, its entry in the
\* Gatsby cache, its temp file and its permanent file; the other task keeps
\* its place in the queue, and a task that has failed holds no slot of the
\* queue, so the task at the head of the queue can start.
C16_Isolation ==
  /\ [][\A u, v \in WebUrls :
          (u # v /\ StepOf(u)) =>
            /\ pc'[v] = pc[v] /\ loc'[v] = loc[v]
            /\ task'[v] = task[v] /\ tickets'[v] = tickets[v]
            /\ v \in DOMAIN processingCache =>
                 /\ v \in DOMAIN processingCache'
                 /\ processingCache'[v] = processingCache[v]
            /\ \A q \in DOMAIN promises :
                 q[1] = v => q \in DOMAIN promises' /\ promises'[q] = promises[q]
            /\ cacheId(v) \in DOMAIN gatsbyCache <=> cacheId(v) \in DOMAIN gatsbyCache'
            /\ cacheId(v) \in DOMAIN gatsbyCache =>
                 gatsbyCache'[cacheId(v)] = gatsbyCache[cacheId(v)]
            /\ \A ext \in Exts :
                 SameFile(tmpFilenameOf(v, ext)) /\ SameFile(filenameOf(v, ext))
            /\ (\E i \in 1..Len(queue) : queue[i] = v) =>
                 (\E i \in 1..Len(queue') : queue'[i] = v)
            /\ \A r \in registrations : r \in registrations']_vars
  /\ [](\A u, v \in WebUrls :
          (u # v /\ Failed(u) /\ queue # << >> /\ Head(queue) = v
             /\ otherRunning < concurrent) => HasSlot)

\* Both tasks have made their request; the download of one failed on its
\* write stream and left its temp file, and the other task has materialized
\* its file in a queue that is full.
C16_Witness ==
  \E u, v \in WebUrls :
    /\ u # v
    /\ Failed(u) /\ fetches[u] = 1
    /\ \E ext \in Exts : tmpFilenameOf(u, ext) \in DOMAIN fs
    /\ pc[v] = "createFileNode" /\ fetches[v] = 1
    /\ loc[v].filename \in DOMAIN fs /\ fs[loc[v].filename] \in Bodies
    /\ runningCount = concurrent

\* C17: once the task of a url has ended, on whatever path, an entity tag
\* in the url's entry of the Gatsby cache comes with a whole file at a
\* permanent file name of the url.
C17_TagImpliesFile ==
  \A u \in WebUrls :
    (pc[u] = "done" /\ CachedETag(u) # "") =>
      \E ext \in Exts :
        /\ filenameOf(u, ext) \in DOMAIN fs
        /\ fs[filenameOf(u, ext)] \in Bodies

\* The permanent files a 200 task of the url with the explicit extension e
\* can have materialized, as far as they are on disk.
MaterializedWith(u, e) ==
  LET exts == IF e.t = "string" /\ e.id # "" THEN {e.id}
              ELSE IF getRemoteFileExtension(u) # ""
                   THEN {getRemoteFileExtension(u)}
                   ELSE {"", ".gif"}
  IN {filenameOf(u, x) : x \in exts} \cap DOMAIN fs

\* C18: a task that is answered 304 computes the permanent file name that
\* an earlier 200 task of the same url and explicit extension materialized,
\* also when that task sniffed its extension from the content.
C18_StablePath ==
  \A u \in WebUrls :
    (pc[u] = "createFileNode" /\ loc[u].response.statusCode = 304
       /\ MaterializedWith(u, task[u].ext) # {}) =>
      loc[u].filename \in MaterializedWith(u, task[u].ext)

\* The call createNode(node, {name: "gatsby-source-filesystem"}) of a sink.
Registration(sink, node) ==
  [sink |-> sink, node |-> node, name |-> "gatsby-source-filesystem"]

\* C19: the step that settles the promise of a task with a node is the one
\* step that calls the sink of the admitted task, once, with that node and
\* the name gatsby-source-filesystem; it comes after the temp file was moved
\* (200) or removed (304), when the node's file is on disk, and the promise
\* is pending until then. No other step calls a sink: a task whose
\* download, move or node creation failed has called none.
C19_Registration ==
  [][\A u \in WebUrls :
       /\ (StepOf(u) /\ pc'[u] = "done"
             /\ promises'[FirstPromise(u)].kind = "node") =>
            LET node == promises'[FirstPromise(u)] IN
              /\ pc[u] = "createFileNode"
              /\ promises[FirstPromise(u)] = Pending
              /\ Registration(task[u].createNode.id, node) \notin registrations
              /\ registrations' =
                   registrations \cup {Registration(task[u].createNode.id, node)}
              /\ loc[u].response.statusCode \in {200, 304}
              /\ loc[u].tmpFilename \notin DOMAIN fs
              /\ node.absolutePath = loc[u].filename
              /\ loc[u].filename \in DOMAIN fs
       /\ (StepOf(u) /\ ~(pc'[u] = "done"
                             /\ promises'[FirstPromise(u)].kind = "node")) =>
            registrations' = registrations]_vars

\* The task of the first call, with sinkA, was answered 304 and has settled
\* with a node that sinkA alone was called with; a later call with sinkB has
\* just been handed that promise.
C19_Witness ==
  \E u \in WebUrls :
    /\ restarts > 0 /\ pc[u] = "done"
    /\ promises[FirstPromise(u)].kind = "node"
    /\ gatsbyCache[cacheId(u)].contentType = ""
    /\ registrations = {Registration("sinkA", promises[FirstPromise(u)])}
    /\ Called(u) /\ lastCall.options.createNode = Fn("sinkB")

====
